---- MODULE Spec2Model ----
(***************************************************************************)
(* Model of cohere-reverse-proxy: the Server lifecycle wrapper             *)
(* (internal/server.go: NewServer, Listen, Serve, ListenAndServe,          *)
(* Shutdown, URL), the process entry point (main.go) and the forwarding    *)
(* handler built by NewProxy (internal/proxy.go).                          *)
(*                                                                         *)
(* The repository configures net/http.Server and httputil.ReverseProxy;    *)
(* an operation that is a call into those packages is modelled by the      *)
(* documented behaviour of the method called at that source line.          *)
(*                                                                         *)
(* Five specifications share the module:                                   *)
(*   SpecServer  - the listen / serve / shutdown lifecycle and main        *)
(*   SpecRewrite - the request rewriting of one exchange                   *)
(*   SpecRelay   - dispatch to the origin and the timed response relay     *)
(*   SpecHop     - the hop-by-hop headers of a request and its response    *)
(*   SpecEngine  - several exchanges at once on one engine                 *)
(***************************************************************************)
EXTENDS Integers, Sequences, FiniteSets, TLC

(***************************************************************************)
(* Bounds of the model                                                     *)
(***************************************************************************)
MaxListeners == 2
MaxConns == 1
MaxCalls == 1

(***************************************************************************)
(* Program constants                                                       *)
(***************************************************************************)
ShutdownGrace == 10

NilListener == 0
NoErr == "nil"
ErrMustListen == "must call Listen() before Serve()"
ErrListen == "failed to create listener"
ErrServerClosed == "http: Server closed"
ErrAccept == "accept: use of closed network connection"
ErrDeadline == "context deadline exceeded"
NoExit == -1
PanicExit == 2

FixedAddr == "127.0.0.1:8001"
EphemeralAddr == "127.0.0.1:0"
InvalidAddr == "256.0.0.1:http"
Addresses == {FixedAddr, EphemeralAddr, InvalidAddr}
FixedPort == 8001
EphemeralBase == 40000

Listeners == 1..MaxListeners
Conns == 1..MaxConns
Calls == 1..MaxCalls
ParentDeadlines == {3, ShutdownGrace + 5}

VARIABLES
  listener,     \* Server.listener: NilListener or the id of the stored listener
  listenErr,    \* what the most recent Listen returned, "none" before any call
  sock,         \* the listening sockets created by net.Listen, by id
  inShutdown,   \* http.Server.inShutdown
  tracked,      \* http.Server.listeners: the listeners Serve is running on
  conns,        \* the connections accepted by the http.Server
  calls,        \* the Serve / ListenAndServe invocations, by caller slot
  sd,           \* the Shutdown invocation; sd.l is s.listener as it was when
                \* Shutdown was called
  exit          \* the exit status of the process (main.go), NoExit while running

serverVars == <<listener, listenErr, sock, inShutdown, tracked, conns, calls, sd, exit>>

VARIABLES
  target,   \* the target URL NewProxy was given
  inreq,    \* the inbound request (ProxyRequest.In), with its RemoteAddr
  outreq,   \* the outbound request (ProxyRequest.Out)
  sent,     \* the request as the origin receives it
  rpc       \* the handler's position: "start", "prepared", "rewritten", "sent"

rewriteVars == <<target, inreq, outreq, sent, rpc>>

VARIABLES
  now,      \* seconds since the server read the inbound request's headers,
            \* counted up to MaxCopyTime (later than every deadline set then)
  xpc,      \* the exchange's position after dispatch
  waited,   \* seconds the transport has spent in its current timed wait
  origin,   \* what the origin has produced: status, body chunks, trailers
  pipe,     \* body chunks the origin wrote and the proxy has not read yet
  rw,       \* the ResponseWriter of the client connection
  client    \* what the client has received

relayVars == <<now, xpc, waited, origin, pipe, rw, client>>

VARIABLES
  originres,  \* the response Transport.RoundTrip returned: status, header, trailer
  clientres   \* the status and header the handler wrote to the client

hopVars == <<originres, clientres>>

VARIABLES
  xs,     \* the exchanges in progress on one engine, by exchange
  pool    \* the Transport's connections to the origin

poolVars == <<xs, pool>>

vars == <<serverVars, rewriteVars, relayVars, hopVars, poolVars>>

IdleCall == [kind |-> "none", pc |-> "idle", l |-> NilListener, err |-> NoErr,
             caller |-> "none"]
IdleShutdown == [pc |-> "idle", err |-> NoErr, elapsed |-> 0, deadline |-> 0,
                 l |-> NilListener]
NoSock == [state |-> "none", port |-> 0]

NewServer ==
  /\ listener = NilListener
  /\ listenErr = "none"
  /\ sock = [i \in Listeners |-> NoSock]
  /\ inShutdown = FALSE
  /\ tracked = {}
  /\ conns = [k \in Conns |-> "none"]
  /\ calls = [c \in Calls |-> IdleCall]
  /\ sd = IdleShutdown
  /\ exit = NoExit

Running == exit = NoExit

Min(a, b) == IF a < b THEN a ELSE b

UsedListeners == {i \in Listeners : sock[i].state # "none"}

\* net.Listen("tcp", address): whether the bind can succeed in this state.
PortInUse(p) == \E i \in Listeners : sock[i].state = "open" /\ sock[i].port = p

CanBind(address) ==
  /\ address # InvalidAddr
  /\ address = FixedAddr => ~PortInUse(FixedPort)
  /\ Cardinality(UsedListeners) < MaxListeners

ResolvedPort(address, id) ==
  IF address = EphemeralAddr THEN EphemeralBase + id ELSE FixedPort

\* Server.Listen with "s.listener, err = net.Listen(...)": a failed bind
\* stores the nil listener it got back.
ListenEffectStoringOnError(address, ok) ==
  IF ok
  THEN LET id == Cardinality(UsedListeners) + 1 IN
       /\ sock' = [sock EXCEPT ![id] = [state |-> "open",
                                        port |-> ResolvedPort(address, id)]]
       /\ listener' = id
       /\ listenErr' = NoErr
  ELSE /\ UNCHANGED sock
       /\ listener' = NilListener
       /\ listenErr' = ErrListen

\* Server.Listen closing the listener it replaces.
ListenEffectClosingEarlier(address, ok) ==
  IF ok
  THEN LET id == Cardinality(UsedListeners) + 1 IN
       /\ sock' = [i \in Listeners |->
                     IF i = id THEN [state |-> "open", port |-> ResolvedPort(address, id)]
                     ELSE IF i = listener THEN [sock[i] EXCEPT !.state = "closed"]
                     ELSE sock[i]]
       /\ listener' = id
       /\ listenErr' = NoErr
  ELSE /\ UNCHANGED <<sock, listener>>
       /\ listenErr' = ErrListen

\* The effect of Server.Listen on the stored listener and the sockets:
\* on success the new listener is stored, on failure nothing changes.
ListenEffect(address, ok) ==
  IF ok
  THEN LET id == Cardinality(UsedListeners) + 1 IN
       /\ sock' = [sock EXCEPT ![id] = [state |-> "open",
                                        port |-> ResolvedPort(address, id)]]
       /\ listener' = id
       /\ listenErr' = NoErr
  ELSE /\ UNCHANGED <<sock, listener>>
       /\ listenErr' = ErrListen

\* Server.Listen called on its own (the tests call it before Serve).
Listen(address, ok) ==
  /\ Running
  /\ ok => CanBind(address)
  /\ ListenEffect(address, ok)
  /\ UNCHANGED <<inShutdown, tracked, conns, calls, sd, exit>>
  /\ UNCHANGED <<rewriteVars, relayVars>>
  /\ UNCHANGED <<hopVars, poolVars>>

\* Caller slots and connection slots are interchangeable: a new call or a
\* new connection takes the lowest free one.
FreeCall(c) == calls[c].pc = "idle" /\ \A d \in Calls : d < c => calls[d].pc # "idle"
FreeConn(k) == conns[k] = "none" /\ \A j \in Conns : j < k => conns[j] # "none"

ServeMissingListenerNoCheck(l) == FALSE

\* The guard of Server.Serve: the stored listener is nil.
ServeMissingListener(l) == l = NilListener

HttpServeEnterUnguarded(c, kind, caller, l) ==
  /\ calls' = [calls EXCEPT ![c] = [kind |-> kind, pc |-> "accepting", l |-> l,
                    err |-> NoErr, caller |-> caller]]
  /\ tracked' = tracked \cup {l}
  /\ UNCHANGED sock

\* http.Server.Serve's prologue: trackListener refuses once shutting down.
\* Serve defers l.Close(), so a refused Serve still closes the listener.
HttpServeEnter(c, kind, caller, l) ==
  IF inShutdown
  THEN /\ calls' = [calls EXCEPT ![c] = [kind |-> kind, pc |-> "returned", l |-> l,
                         err |-> ErrServerClosed, caller |-> caller]]
       /\ sock' = [sock EXCEPT ![l].state = "closed"]
       /\ UNCHANGED tracked
  ELSE /\ calls' = [calls EXCEPT ![c] = [kind |-> kind, pc |-> "accepting", l |-> l,
                         err |-> NoErr, caller |-> caller]]
       /\ tracked' = tracked \cup {l}
       /\ UNCHANGED sock

\* Server.Serve, first half: the nil test of the stored listener.  The tests
\* start Serve on a goroutine of its own, so other calls may run before it
\* goes on.
Serve(c) ==
  /\ Running
  /\ FreeCall(c)
  /\ calls' = [calls EXCEPT ![c] =
        IF ServeMissingListener(listener)
        THEN [kind |-> "Serve", pc |-> "returned", l |-> NilListener,
              err |-> ErrMustListen, caller |-> "test"]
        ELSE [kind |-> "Serve", pc |-> "checked", l |-> NilListener,
              err |-> NoErr, caller |-> "test"]]
  /\ UNCHANGED <<listener, listenErr, sock, inShutdown, tracked, conns, sd, exit>>
  /\ UNCHANGED <<rewriteVars, relayVars>>
  /\ UNCHANGED <<hopVars, poolVars>>

\* Server.Serve, second half: s.srv.Serve(s.listener).
ServeServe(c) ==
  /\ Running
  /\ calls[c].pc = "checked"
  /\ HttpServeEnter(c, "Serve", calls[c].caller, listener)
  /\ UNCHANGED <<listener, listenErr, inShutdown, conns, sd, exit>>
  /\ UNCHANGED <<rewriteVars, relayVars>>
  /\ UNCHANGED <<hopVars, poolVars>>

\* main.go calls ListenAndServe on a fresh server, as its only call.
FreshProcess ==
  /\ listener = NilListener
  /\ UsedListeners = {}
  /\ \A c \in Calls : calls[c].pc = "idle"
  /\ sd.pc = "idle"

AfterListenIgnoringError(ok) == "bound"

\* Server.ListenAndServe: "if err := s.Listen(address); err != nil { return err }".
AfterListen(ok) == IF ok THEN "bound" ELSE "returned"

\* Server.ListenAndServe, first half: Listen, returning its error.
ListenAndServe(c, address, ok, caller) ==
  /\ Running
  /\ FreeCall(c)
  /\ caller = "main" => FreshProcess
  /\ \A d \in Calls : calls[d].caller # "main"
  /\ ok => CanBind(address)
  /\ ListenEffect(address, ok)
  /\ calls' = [calls EXCEPT ![c] =
        [kind |-> "ListenAndServe", pc |-> AfterListen(ok), l |-> NilListener,
         err |-> IF ok THEN NoErr ELSE ErrListen, caller |-> caller]]
  /\ UNCHANGED <<inShutdown, tracked, conns, sd, exit>>
  /\ UNCHANGED <<rewriteVars, relayVars>>
  /\ UNCHANGED <<hopVars, poolVars>>

\* Server.ListenAndServe, second half: s.srv.Serve(s.listener).
ListenAndServeServe(c) ==
  /\ Running
  /\ calls[c].pc = "bound"
  /\ HttpServeEnter(c, "ListenAndServe", calls[c].caller, listener)
  /\ UNCHANGED <<listener, listenErr, inShutdown, conns, sd, exit>>
  /\ UNCHANGED <<rewriteVars, relayVars>>
  /\ UNCHANGED <<hopVars, poolVars>>

\* The accept loop of http.Server.Serve takes a new connection.
Accept(c, k) ==
  /\ Running
  /\ calls[c].pc = "accepting"
  /\ sock[calls[c].l].state = "open"
  /\ FreeConn(k)
  /\ conns' = [conns EXCEPT ![k] = "active"]
  /\ UNCHANGED <<listener, listenErr, sock, inShutdown, tracked, calls, sd, exit>>
  /\ UNCHANGED <<rewriteVars, relayVars>>
  /\ UNCHANGED <<hopVars, poolVars>>

\* What http.Server.Serve returns when Accept fails.
HttpServeResult(shuttingDown) ==
  IF shuttingDown THEN ErrServerClosed ELSE ErrAccept

\* Accept fails: the socket was closed (by Shutdown or by another Serve on the
\* same listener), or the system reports a permanent accept error.  Serve
\* returns; its deferred calls close the listener and stop tracking it.
AcceptFail(c, systemError) ==
  /\ Running
  /\ calls[c].pc = "accepting"
  /\ systemError \/ sock[calls[c].l].state = "closed"
  /\ calls' = [calls EXCEPT ![c].pc = "returned",
                            ![c].err = HttpServeResult(inShutdown)]
  /\ sock' = [sock EXCEPT ![calls[c].l].state = "closed"]
  /\ tracked' = IF \E d \in Calls \ {c} :
                     calls[d].pc = "accepting" /\ calls[d].l = calls[c].l
                THEN tracked ELSE tracked \ {calls[c].l}
  /\ UNCHANGED <<listener, listenErr, inShutdown, conns, sd, exit>>
  /\ UNCHANGED <<rewriteVars, relayVars>>
  /\ UNCHANGED <<hopVars, poolVars>>

\* A request on a connection finishes: the connection goes idle (keep-alive),
\* or is closed when keep-alives are off because the server is shutting down.
ConnFinish(k) ==
  /\ Running
  /\ conns[k] = "active"
  /\ conns' = [conns EXCEPT ![k] = IF inShutdown THEN "closed" ELSE "idle"]
  /\ UNCHANGED <<listener, listenErr, sock, inShutdown, tracked, calls, sd, exit>>
  /\ UNCHANGED <<rewriteVars, relayVars>>
  /\ UNCHANGED <<hopVars, poolVars>>

\* A new request arrives on an idle keep-alive connection.
ConnRequest(k) ==
  /\ Running
  /\ conns[k] = "idle"
  /\ conns' = [conns EXCEPT ![k] = "active"]
  /\ UNCHANGED <<listener, listenErr, sock, inShutdown, tracked, calls, sd, exit>>
  /\ UNCHANGED <<rewriteVars, relayVars>>
  /\ UNCHANGED <<hopVars, poolVars>>

\* The client goes away, or the idle timeout closes the connection.
ConnClose(k) ==
  /\ Running
  /\ conns[k] \in {"active", "idle"}
  /\ conns' = [conns EXCEPT ![k] = "closed"]
  /\ UNCHANGED <<listener, listenErr, sock, inShutdown, tracked, calls, sd, exit>>
  /\ UNCHANGED <<rewriteVars, relayVars>>
  /\ UNCHANGED <<hopVars, poolVars>>

\* Server.Shutdown: context.WithTimeout(ctx, 10s), then http.Server.Shutdown,
\* which sets inShutdown and closes the listeners Serve is tracking.
Shutdown(parentDeadline) ==
  /\ Running
  /\ sd.pc = "idle"
  /\ inShutdown' = TRUE
  /\ sock' = [i \in Listeners |->
                IF i \in tracked THEN [sock[i] EXCEPT !.state = "closed"] ELSE sock[i]]
  /\ sd' = [pc |-> "polling", err |-> NoErr, elapsed |-> 0,
            deadline |-> Min(parentDeadline, ShutdownGrace), l |-> listener]
  /\ UNCHANGED <<listener, listenErr, tracked, conns, calls, exit>>
  /\ UNCHANGED <<rewriteVars, relayVars>>
  /\ UNCHANGED <<hopVars, poolVars>>

Quiescent(cs) == \A k \in Conns : cs[k] \in {"none", "closed"}

\* One round of http.Server.Shutdown's poll: closeIdleConns closes the idle
\* connections and Shutdown returns nil once no connection is left.
ShutdownPoll ==
  /\ Running
  /\ sd.pc = "polling"
  /\ sd.elapsed < sd.deadline
  /\ LET cs == [k \in Conns |-> IF conns[k] = "idle" THEN "closed" ELSE conns[k]] IN
     /\ conns' = cs
     /\ sd' = IF Quiescent(cs) THEN [sd EXCEPT !.pc = "returned", !.err = NoErr]
              ELSE sd
     /\ ~Quiescent(cs) => cs # conns
  /\ UNCHANGED <<listener, listenErr, sock, inShutdown, tracked, calls, exit>>
  /\ UNCHANGED <<rewriteVars, relayVars>>
  /\ UNCHANGED <<hopVars, poolVars>>

\* Time passes while Shutdown waits for connections to drain.  The poll
\* interval is below a second, so only the instant the context expires is
\* distinguished from the time before it.
ShutdownTick ==
  /\ Running
  /\ sd.pc = "polling"
  /\ sd.elapsed < sd.deadline
  /\ sd' = [sd EXCEPT !.elapsed = sd.deadline]
  /\ UNCHANGED <<listener, listenErr, sock, inShutdown, tracked, conns, calls, exit>>
  /\ UNCHANGED <<rewriteVars, relayVars>>
  /\ UNCHANGED <<hopVars, poolVars>>

\* The context of Shutdown expires: http.Server.Shutdown returns ctx.Err()
\* and leaves the remaining connections as they are.
ShutdownTimeout ==
  /\ Running
  /\ sd.pc = "polling"
  /\ sd.elapsed >= sd.deadline
  /\ sd' = [sd EXCEPT !.pc = "returned", !.err = ErrDeadline]
  /\ UNCHANGED <<listener, listenErr, sock, inShutdown, tracked, conns, calls, exit>>
  /\ UNCHANGED <<rewriteVars, relayVars>>
  /\ UNCHANGED <<hopVars, poolVars>>

\* main.go: a non-nil error from ListenAndServe exits with status 1,
\* a nil error falls through to "Server stopped cleanly" and status 0.
ExitStatus(err) == IF err # NoErr THEN 1 ELSE 0

MainExit(c) ==
  /\ Running
  /\ calls[c].caller = "main"
  /\ calls[c].pc = "returned"
  /\ exit' = ExitStatus(calls[c].err)
  /\ UNCHANGED <<listener, listenErr, sock, inShutdown, tracked, conns, calls, sd>>
  /\ UNCHANGED <<rewriteVars, relayVars>>
  /\ UNCHANGED <<hopVars, poolVars>>

\* s.listener.Addr(): the resolved local address, which the listener keeps
\* after it is closed.
ListenerAddr(l) == [ip |-> "127.0.0.1", port |-> sock[l].port]

NoAddress == [scheme |-> "", addr |-> [ip |-> "", port |-> 0]]

URLResultWhileOpen(l) ==
  IF l = NilListener \/ sock[l].state # "open" THEN NoAddress
  ELSE [scheme |-> "http", addr |-> ListenerAddr(l)]

\* What Server.URL returns: fmt.Sprintf("http://%s", s.listener.Addr().String()).
\* On a nil listener the method call panics and nothing is returned.
URLResult(l) ==
  IF l = NilListener THEN NoAddress
  ELSE [scheme |-> "http", addr |-> ListenerAddr(l)]

\* Server.URL, called by the tests: it changes nothing, and the nil
\* dereference before any successful Listen ends the process.
URL ==
  /\ Running
  /\ \A c \in Calls : calls[c].caller # "main"
  /\ exit' = IF listener = NilListener THEN PanicExit ELSE exit
  /\ UNCHANGED <<listener, listenErr, sock, inShutdown, tracked, conns, calls, sd>>
  /\ UNCHANGED <<rewriteVars, relayVars>>
  /\ UNCHANGED <<hopVars, poolVars>>

ServerNext ==
  \/ URL
  \/ \E a \in Addresses, ok \in BOOLEAN : Listen(a, ok)
  \/ \E c \in Calls : Serve(c)
  \/ \E c \in Calls : ServeServe(c)
  \/ \E c \in Calls, a \in Addresses, ok \in BOOLEAN, who \in {"main", "test"} :
        ListenAndServe(c, a, ok, who)
  \/ \E c \in Calls : ListenAndServeServe(c)
  \/ \E c \in Calls, k \in Conns : Accept(c, k)
  \/ \E c \in Calls, e \in BOOLEAN : AcceptFail(c, e)
  \/ \E k \in Conns : ConnFinish(k)
  \/ \E k \in Conns : ConnRequest(k)
  \/ \E k \in Conns : ConnClose(k)
  \/ \E d \in ParentDeadlines : Shutdown(d)
  \/ ShutdownPoll
  \/ ShutdownTick
  \/ ShutdownTimeout
  \/ \E c \in Calls : MainExit(c)

(***************************************************************************)
(* The forwarding handler, part one: building the outbound request         *)
(* (httputil.ReverseProxy.ServeHTTP with the Rewrite hook of NewProxy).    *)
(*                                                                         *)
(* A header is a function from header names to the sequence of its values; *)
(* a value is the sequence of its comma-separated elements.  A path is the *)
(* sequence of its "/" and segment tokens, a query the sequence of its     *)
(* parameters.                                                             *)
(***************************************************************************)
MaxQuery == 2

HeaderNames == {"X-Forwarded-For", "X-Forwarded-Host", "X-Forwarded-Proto",
                "Forwarded", "Connection", "Keep-Alive", "X-Custom",
                "Proxy-Connection", "Proxy-Authenticate", "Proxy-Authorization",
                "Te", "Trailer", "Transfer-Encoding", "Upgrade"}
NoHeader == [n \in HeaderNames |-> <<>>]

\* A query parameter: its key, and whether url.ParseQuery rejects it
\* (it holds a ';' or a malformed percent escape).
Params == {[k |-> "a", bad |-> FALSE], [k |-> "b", bad |-> FALSE],
           [k |-> "c", bad |-> TRUE]}
Queries == UNION {[1..n -> Params] : n \in 0..MaxQuery}

Targets == {[scheme |-> "http", host |-> "127.0.0.1:8000", path |-> <<>>, query |-> <<>>],
            [scheme |-> "https", host |-> "httpbin.org", path |-> <<>>, query |-> <<>>],
            [scheme |-> "http", host |-> "127.0.0.1:8000", path |-> <<"/", "api">>,
             query |-> <<[k |-> "t", bad |-> FALSE]>>]}

\* The request line and Host of the inbound request: origin form, or the
\* absolute form a client sends to a forward proxy.
RequestForms == {[host |-> "127.0.0.1:8080", scheme |-> "", urlhost |-> ""],
                 [host |-> "other.example", scheme |-> "http", urlhost |-> "other.example"]}
Paths == {<<"/">>, <<"/", "anything">>}
ClientIPs == {"127.0.0.1", "192.0.2.7"}
ClientPort == 51234
ForwardedForChoices == {<<>>, << <<"10.0.0.1">> >>, << <<"10.0.0.1">>, <<"10.0.0.2">> >>}
ForwardedHostChoices == {<<>>, << <<"spoofed.example">> >>}
ForwardedChoices == {<<>>, << <<"for=10.0.0.1">> >>}
ConnectionChoices == {<<>>, << <<"X-Custom">> >>}
KeepAliveChoices == {<<>>, << <<"timeout=5">> >>}

NoRequest == [host |-> "", url |-> [scheme |-> "", host |-> "", path |-> <<>>, query |-> <<>>],
              header |-> NoHeader]

InboundRequests ==
  {[host |-> f.host,
    url |-> [scheme |-> f.scheme, host |-> f.urlhost, path |-> p, query |-> q],
    remote |-> [ip |-> ip, port |-> ClientPort],
    header |-> [NoHeader EXCEPT !["X-Forwarded-For"] = xff,
                                !["X-Forwarded-Host"] = xfh,
                                !["Forwarded"] = fwd,
                                !["Connection"] = conn,
                                !["Keep-Alive"] = ka,
                                !["X-Custom"] = << <<"v">> >>]] :
     f \in RequestForms, p \in Paths, q \in Queries, ip \in ClientIPs,
     xff \in ForwardedForChoices, xfh \in ForwardedHostChoices,
     fwd \in ForwardedChoices, conn \in ConnectionChoices, ka \in KeepAliveChoices}

\* NewProxy(target), and a request arriving at the handler.
NewProxy ==
  /\ target \in Targets
  /\ inreq \in InboundRequests
  /\ outreq = NoRequest
  /\ sent = NoRequest
  /\ rpc = "start"

RewriteIdle ==
  /\ target = CHOOSE t \in Targets : t.scheme = "http" /\ t.path = <<>>
  /\ inreq = NoRequest
  /\ outreq = NoRequest
  /\ sent = NoRequest
  /\ rpc = "idle"

Del(h, n) == IF n \in HeaderNames THEN [h EXCEPT ![n] = <<>>] ELSE h
Set(h, n, v) == [h EXCEPT ![n] = <<v>>]

RECURSIVE Flatten(_)
Flatten(ss) == IF ss = <<>> THEN <<>> ELSE Head(ss) \o Flatten(Tail(ss))

RECURSIVE DelAll(_, _)
DelAll(h, names) ==
  IF names = <<>> THEN h ELSE DelAll(Del(h, Head(names)), Tail(names))

\* removeHopByHopHeaders: the headers named by Connection, then the standard
\* hop-by-hop headers.
HopHeaders == <<"Connection", "Proxy-Connection", "Keep-Alive", "Proxy-Authenticate",
                "Proxy-Authorization", "Te", "Trailer", "Transfer-Encoding",
                "Upgrade">>
removeHopByHopHeadersStandardOnly(h) == DelAll(h, HopHeaders)

removeHopByHopHeaders(h) ==
  DelAll(DelAll(h, Flatten(h["Connection"])), HopHeaders)

\* httpguts.HeaderValuesContainsToken
HeaderValuesContainsToken(values, token) ==
  \E i \in 1..Len(values) : \E j \in 1..Len(values[i]) : values[i][j] = token

\* h.Get(n): the first value of the header, "" when it has none.
Get(h, n) ==
  IF Len(h[n]) = 0 \/ Len(h[n][1]) = 0 THEN "" ELSE h[n][1][1]

\* upgradeType: the Upgrade header when Connection names the token Upgrade.
upgradeType(h) ==
  IF HeaderValuesContainsToken(h["Connection"], "Upgrade") THEN Get(h, "Upgrade")
  ELSE ""

\* ServeHTTP after removeHopByHopHeaders: "Te: trailers" is set again when the
\* client sent it, and Connection / Upgrade are set again for an upgrade.
RestoreForwardable(in, h) ==
  LET h1 == IF HeaderValuesContainsToken(in.header["Te"], "trailers")
            THEN Set(h, "Te", <<"trailers">>) ELSE h
      reqUpType == upgradeType(in.header)
  IN IF reqUpType # ""
     THEN Set(Set(h1, "Connection", <<"Upgrade">>), "Upgrade", <<reqUpType>>)
     ELSE h1

\* cleanQueryParams: a query with an unparsable parameter is re-encoded from
\* the parameters url.ParseQuery accepts, which Values.Encode sorts by key.
Unparsable(q) == \E i \in 1..Len(q) : q[i].bad
IsGood(x) == ~x.bad
Keys == <<"a", "b", "c", "t">>
RECURSIVE EncodeByKey(_, _)
EncodeByKey(q, ks) ==
  IF ks = <<>> THEN <<>>
  ELSE LET HasKey(x) == x.k = Head(ks) IN
       SelectSeq(q, HasKey) \o EncodeByKey(q, Tail(ks))
cleanQueryParams(q) ==
  IF Unparsable(q) THEN EncodeByKey(SelectSeq(q, IsGood), Keys) ELSE q

\* ServeHTTP up to the Rewrite hook: clone the request, remove the hop-by-hop
\* headers and restore the forwardable ones, strip the client's forwarding
\* headers, clean the query.
PrepareOutbound(in) ==
  LET clone == [host |-> in.host, url |-> in.url, header |-> in.header]
      hopless == RestoreForwardable(in, removeHopByHopHeaders(clone.header))
      stripped == DelAll(hopless, <<"Forwarded", "X-Forwarded-For",
                                    "X-Forwarded-Host", "X-Forwarded-Proto">>)
  IN [clone EXCEPT !.header = stripped,
                   !.url.query = cleanQueryParams(clone.url.query)]

\* net.SplitHostPort(r.In.RemoteAddr)
SplitHostPort(addr) == addr.ip

\* ProxyRequest.SetXForwarded
SetXForwarded(pr) ==
  LET clientIP == SplitHostPort(pr.In.remote)
      prior == pr.Out.header["X-Forwarded-For"]
      chain == IF Len(prior) > 0 THEN Flatten(prior) \o <<clientIP>> ELSE <<clientIP>>
      h1 == Set(pr.Out.header, "X-Forwarded-For", chain)
      h2 == Set(h1, "X-Forwarded-Host", <<pr.In.host>>)
      h3 == Set(h2, "X-Forwarded-Proto", <<"http">>)
  IN [pr EXCEPT !.Out.header = h3]

\* singleJoiningSlash and joinURLPath of net/http/httputil
HasSuffixSlash(a) == Len(a) > 0 /\ a[Len(a)] = "/"
HasPrefixSlash(b) == Len(b) > 0 /\ b[1] = "/"
singleJoiningSlash(a, b) ==
  IF HasSuffixSlash(a) /\ HasPrefixSlash(b) THEN a \o Tail(b)
  ELSE IF ~HasSuffixSlash(a) /\ ~HasPrefixSlash(b) THEN a \o <<"/">> \o b
  ELSE a \o b

\* ProxyRequest.SetURL(target)
SetURL(pr, t) ==
  [pr EXCEPT !.Out.url = [scheme |-> t.scheme,
                          host |-> t.host,
                          path |-> singleJoiningSlash(t.path, pr.Out.url.path),
                          query |-> t.query \o pr.Out.url.query],
             !.Out.host = ""]

RewriteWithoutXForwarded(pr, t) == SetURL(pr, t)

\* The Rewrite hook NewProxy installs
RewriteHook(pr, t) == SetURL(SetXForwarded(pr), t)

\* The request the origin receives: the Host header is Out.Host, or the URL's
\* host when Out.Host is empty; the connection is made to the URL's host.
WireRequest(out) ==
  [host |-> IF out.host # "" THEN out.host ELSE out.url.host,
   url |-> out.url,
   header |-> out.header]

(***************************************************************************)
(* The forwarding handler, part two: dispatch over the transport and the   *)
(* relay of the response.  Time is counted in seconds from the moment the  *)
(* server finished reading the inbound request's headers, which is when    *)
(* http.Server arms the connection's write deadline (WriteTimeout).        *)
(***************************************************************************)
MaxBody == 3
MaxCopyTime == 12

DialTimeout == 30
TLSHandshakeTimeout == 10
ResponseHeaderTimeout == 10
WriteTimeout == 10
FlushInterval == 10
SecondMillis == 1000
StatusBadGateway == 502
StatusOK == 200
StatusNotFound == 404

Statuses == {StatusOK, StatusNotFound}
TrailerNames == {"X-Trailer", "X-Trailer-2"}
TrailerValues == {"first trailer", "second trailer"}
NoTrailers == [n \in {} |-> ""]
TrailerMaps == UNION {[S -> TrailerValues] : S \in SUBSET TrailerNames}

NoResponse == [status |-> 0, cl |-> FALSE, announced |-> {}, body |-> <<>>,
               finished |-> "no", trailers |-> NoTrailers, lastWrite |-> -1,
               err |-> "none"]
NewResponseWriter == [status |-> 0, buf |-> <<>>, flushPending |-> FALSE,
                      broken |-> FALSE]
NewClient == [status |-> 0, announced |-> {}, body |-> <<>>,
              trailers |-> NoTrailers, state |-> "waiting", gone |-> FALSE]

RelayIdle ==
  /\ now = 0
  /\ xpc = "idle"
  /\ waited = 0
  /\ origin = NoResponse
  /\ pipe = <<>>
  /\ rw = NewResponseWriter
  /\ client = NewClient

Prepare ==
  /\ rpc = "start"
  /\ outreq' = PrepareOutbound(inreq)
  /\ rpc' = "prepared"
  /\ UNCHANGED <<target, inreq, sent>>
  /\ UNCHANGED <<serverVars, relayVars>>
  /\ UNCHANGED <<hopVars, poolVars>>

Rewrite ==
  /\ rpc = "prepared"
  /\ outreq' = RewriteHook([In |-> inreq, Out |-> outreq], target).Out
  /\ rpc' = "rewritten"
  /\ UNCHANGED <<target, inreq, sent>>
  /\ UNCHANGED <<serverVars, relayVars>>
  /\ UNCHANGED <<hopVars, poolVars>>

\* transport.RoundTrip(outreq): the request leaves and the dial begins.
RoundTrip ==
  /\ rpc = "rewritten"
  /\ sent' = WireRequest(outreq)
  /\ rpc' = "sent"
  /\ xpc' = "dial"
  /\ waited' = 0
  /\ UNCHANGED <<target, inreq, outreq, now, origin, pipe, rw, client>>
  /\ UNCHANGED serverVars
  /\ UNCHANGED <<hopVars, poolVars>>

RewriteNext == Prepare \/ Rewrite \/ RoundTrip

\* The timeout the Transport of NewProxy applies to each of its waits.
PhaseTimeout(phase) ==
  CASE phase = "dial" -> DialTimeout
    [] phase = "tls" -> TLSHandshakeTimeout
    [] phase = "await" -> ResponseHeaderTimeout

InTimedPhase == xpc \in {"dial", "tls", "await"}
WithinTimeout == InTimedPhase /\ waited < PhaseTimeout(xpc)

\* The origin accepts the connection.
OriginConnect ==
  /\ xpc = "dial"
  /\ WithinTimeout
  /\ xpc' = IF sent.url.scheme = "https" THEN "tls" ELSE "await"
  /\ waited' = 0
  /\ UNCHANGED <<now, origin, pipe, rw, client>>
  /\ UNCHANGED <<serverVars, rewriteVars>>
  /\ UNCHANGED <<hopVars, poolVars>>

\* The TLS handshake with an https origin completes.
TLSHandshakeDone ==
  /\ xpc = "tls"
  /\ WithinTimeout
  /\ xpc' = "await"
  /\ waited' = 0
  /\ UNCHANGED <<now, origin, pipe, rw, client>>
  /\ UNCHANGED <<serverVars, rewriteVars>>
  /\ UNCHANGED <<hopVars, poolVars>>

\* The dial is refused, the handshake fails, or the origin closes the
\* connection before sending response headers: RoundTrip returns an error.
TransportFail ==
  /\ WithinTimeout
  /\ origin' = [origin EXCEPT !.err =
        IF xpc = "dial" THEN "connection refused"
        ELSE IF xpc = "tls" THEN "handshake failure" ELSE "EOF"]
  /\ xpc' = "error"
  /\ UNCHANGED <<now, waited, pipe, rw, client>>
  /\ UNCHANGED <<serverVars, rewriteVars>>
  /\ UNCHANGED <<hopVars, poolVars>>

\* One of the Transport's timeouts expires: RoundTrip returns an error.
TransportTimeout ==
  /\ InTimedPhase
  /\ waited >= PhaseTimeout(xpc)
  /\ origin' = [origin EXCEPT !.err = "timeout"]
  /\ xpc' = "error"
  /\ UNCHANGED <<now, waited, pipe, rw, client>>
  /\ UNCHANGED <<serverVars, rewriteVars>>
  /\ UNCHANGED <<hopVars, poolVars>>

\* The origin sends its status line and headers: a response with a
\* Content-Length, or a chunked one that may announce trailers.
OriginRespond(st, cl, ann) ==
  /\ xpc = "await"
  /\ WithinTimeout
  /\ cl => ann = {}
  /\ origin' = [origin EXCEPT !.status = st, !.cl = cl, !.announced = ann]
  /\ xpc' = "headers"
  /\ UNCHANGED <<now, waited, pipe, rw, client>>
  /\ UNCHANGED <<serverVars, rewriteVars>>
  /\ UNCHANGED <<hopVars, poolVars>>

\* ReverseProxy.flushInterval: a response of unknown length is flushed after
\* every write (-1), any other every FlushInterval milliseconds.
flushInterval(res) == IF ~res.cl THEN -1 ELSE FlushInterval

\* The connection's write deadline has not passed.
CanWrite == now < WriteTimeout

\* A flush of the ResponseWriter: the status line and headers (once) and the
\* buffered chunks go to the client, unless the write deadline has passed,
\* in which case the write fails and the connection is unusable.
Flushed(r, c) ==
  IF r.broken
  THEN [rw |-> [r EXCEPT !.buf = <<>>, !.flushPending = FALSE], client |-> c]
  ELSE IF CanWrite
  THEN [rw |-> [r EXCEPT !.buf = <<>>, !.flushPending = FALSE],
        client |-> [c EXCEPT !.status = r.status,
                             !.announced = origin.announced,
                             !.body = @ \o r.buf]]
  ELSE [rw |-> [r EXCEPT !.buf = <<>>, !.flushPending = FALSE, !.broken = TRUE],
        client |-> c]

\* The handler copies the response headers and calls rw.WriteHeader;
\* copyResponse arms the first flush so that the headers go out.
WriteHeader ==
  /\ xpc = "headers"
  /\ rw' = [rw EXCEPT !.status = origin.status,
                      !.flushPending = (flushInterval(origin) # 0)]
  /\ xpc' = "copy"
  /\ UNCHANGED <<now, waited, origin, pipe, client>>
  /\ UNCHANGED <<serverVars, rewriteVars>>
  /\ UNCHANGED <<hopVars, poolVars>>

\* The origin writes one more chunk of the body; the chunks are numbered so
\* that a lost, repeated or misplaced chunk shows.
OriginWrite ==
  /\ xpc = "copy"
  /\ origin.finished = "no"
  /\ Len(origin.body) < MaxBody
  /\ origin' = [origin EXCEPT !.body = Append(@, Len(@) + 1), !.lastWrite = now]
  /\ pipe' = Append(pipe, Len(origin.body) + 1)
  /\ UNCHANGED <<now, xpc, waited, rw, client>>
  /\ UNCHANGED <<serverVars, rewriteVars>>
  /\ UNCHANGED <<hopVars, poolVars>>

\* The origin ends the body, sending its trailers.
OriginFinish(tr) ==
  /\ xpc = "copy"
  /\ origin.finished = "no"
  /\ origin.cl => tr = NoTrailers
  /\ origin' = [origin EXCEPT !.finished = "ok", !.trailers = tr]
  /\ UNCHANGED <<now, xpc, waited, pipe, rw, client>>
  /\ UNCHANGED <<serverVars, rewriteVars>>
  /\ UNCHANGED <<hopVars, poolVars>>

\* The origin's connection fails in the middle of the body.
OriginAbort ==
  /\ xpc = "copy"
  /\ origin.finished = "no"
  /\ origin' = [origin EXCEPT !.finished = "failed", !.err = "unexpected EOF"]
  /\ UNCHANGED <<now, xpc, waited, pipe, rw, client>>
  /\ UNCHANGED <<serverVars, rewriteVars>>
  /\ UNCHANGED <<hopVars, poolVars>>

\* copyBuffer moves one chunk from the origin's body to the ResponseWriter.
\* A write on a connection whose earlier write failed returns the error and
\* the handler panics with ErrAbortHandler; the server closes the connection.
CopyChunk ==
  /\ xpc = "copy"
  /\ pipe # <<>>
  /\ pipe' = Tail(pipe)
  /\ IF rw.broken
     THEN /\ xpc' = "aborted"
          /\ client' = [client EXCEPT !.state = "closed"]
          /\ UNCHANGED rw
     ELSE LET written == [rw EXCEPT !.buf = Append(@, Head(pipe))]
              fi == flushInterval(origin)
          IN /\ xpc' = xpc
             /\ IF fi < 0
                THEN /\ rw' = Flushed(written, client).rw
                     /\ client' = Flushed(written, client).client
                ELSE /\ rw' = [written EXCEPT !.flushPending = (fi > 0)]
                     /\ UNCHANGED client
  /\ UNCHANGED <<now, waited, origin>>
  /\ UNCHANGED <<serverVars, rewriteVars>>
  /\ UNCHANGED <<hopVars, poolVars>>

\* The flush timer of maxLatencyWriter fires.
FlushTimer ==
  /\ xpc = "copy"
  /\ rw.flushPending
  /\ rw' = Flushed(rw, client).rw
  /\ client' = Flushed(rw, client).client
  /\ UNCHANGED <<now, xpc, waited, origin, pipe>>
  /\ UNCHANGED <<serverVars, rewriteVars>>
  /\ UNCHANGED <<hopVars, poolVars>>

\* The trailers the handler relays once the body is copied: res.Trailer holds
\* the announced keys and every trailer the origin sent; when nothing
\* unannounced arrived they are copied as declared trailers, otherwise each
\* sent trailer is written under http.TrailerPrefix.
RelayedTrailers(res) ==
  LET keys == res.announced \cup DOMAIN res.trailers IN
  IF Cardinality(keys) = Cardinality(res.announced)
  THEN [n \in res.announced \cap DOMAIN res.trailers |-> res.trailers[n]]
  ELSE [n \in DOMAIN res.trailers |-> res.trailers[n]]

\* The body is copied to its end: the handler relays the trailers and
\* returns, and the server writes what is still buffered, the end of the
\* body and the trailers.
FinishCopy ==
  /\ xpc = "copy"
  /\ pipe = <<>>
  /\ origin.finished = "ok"
  /\ xpc' = "done"
  /\ rw' = Flushed(rw, client).rw
  /\ client' = IF ~rw.broken /\ CanWrite
               THEN [Flushed(rw, client).client EXCEPT
                        !.trailers = RelayedTrailers(origin), !.state = "complete"]
               ELSE [client EXCEPT !.state = "closed"]
  /\ UNCHANGED <<now, waited, origin, pipe>>
  /\ UNCHANGED <<serverVars, rewriteVars>>
  /\ UNCHANGED <<hopVars, poolVars>>

\* The client goes away after it received the status line and headers:
\* every later write to its connection fails.
ClientDisconnect ==
  /\ xpc = "copy"
  /\ client.status # 0
  /\ ~client.gone
  /\ ~rw.broken
  /\ rw' = [rw EXCEPT !.broken = TRUE]
  /\ client' = [client EXCEPT !.gone = TRUE]
  /\ UNCHANGED <<now, xpc, waited, origin, pipe>>
  /\ UNCHANGED <<serverVars, rewriteVars>>
  /\ UNCHANGED <<hopVars, poolVars>>

\* ServeHTTP treating a failed body read like a failed RoundTrip.
AbortCopyWithBadGateway ==
  /\ xpc = "copy"
  /\ pipe = <<>>
  /\ origin.finished = "failed"
  /\ xpc' = "aborted"
  /\ rw' = [rw EXCEPT !.buf = <<>>, !.flushPending = FALSE,
                      !.status = StatusBadGateway]
  /\ client' = [client EXCEPT !.status = StatusBadGateway, !.state = "closed"]
  /\ UNCHANGED <<now, waited, origin, pipe>>
  /\ UNCHANGED <<serverVars, rewriteVars>>
  /\ UNCHANGED <<hopVars, poolVars>>

\* The read of the origin's body fails: the handler panics with
\* ErrAbortHandler, what is buffered is dropped, the connection is closed.
AbortCopy ==
  /\ xpc = "copy"
  /\ pipe = <<>>
  /\ origin.finished = "failed"
  /\ xpc' = "aborted"
  /\ rw' = [rw EXCEPT !.buf = <<>>, !.flushPending = FALSE]
  /\ client' = [client EXCEPT !.state = "closed"]
  /\ UNCHANGED <<now, waited, origin, pipe>>
  /\ UNCHANGED <<serverVars, rewriteVars>>
  /\ UNCHANGED <<hopVars, poolVars>>

\* RoundTrip returned an error: the default ErrorHandler writes 502 and the
\* handler returns; the server then writes the response to the connection.
BadGateway ==
  /\ xpc = "error"
  /\ xpc' = "done"
  /\ rw' = [rw EXCEPT !.status = StatusBadGateway, !.broken = ~CanWrite]
  /\ client' = IF CanWrite
               THEN [client EXCEPT !.status = StatusBadGateway, !.state = "complete"]
               ELSE [client EXCEPT !.state = "closed"]
  /\ UNCHANGED <<now, waited, origin, pipe>>
  /\ UNCHANGED <<serverVars, rewriteVars>>
  /\ UNCHANGED <<hopVars, poolVars>>

\* A step of the handler is due: it takes far less than a second, and the
\* flush interval is a hundredth of one.
HandlerStepDue ==
  \/ xpc \in {"headers", "error"}
  \/ xpc = "copy" /\ (pipe # <<>> \/ origin.finished # "no")
  \/ xpc = "copy" /\ rw.flushPending /\ FlushInterval < SecondMillis

\* A second passes while the transport waits or the origin is silent.
Tick ==
  /\ ~HandlerStepDue
  /\ \/ WithinTimeout
     \/ xpc = "copy" /\ now < MaxCopyTime
  /\ now' = Min(now + 1, MaxCopyTime)
  /\ waited' = IF InTimedPhase THEN waited + 1 ELSE waited
  /\ UNCHANGED <<xpc, origin, pipe, rw, client>>
  /\ UNCHANGED <<serverVars, rewriteVars>>
  /\ UNCHANGED <<hopVars, poolVars>>

RelayNext ==
  \/ Prepare
  \/ Rewrite
  \/ RoundTrip
  \/ OriginConnect
  \/ TLSHandshakeDone
  \/ TransportFail
  \/ TransportTimeout
  \/ \E st \in Statuses, cl \in BOOLEAN, ann \in SUBSET TrailerNames :
        OriginRespond(st, cl, ann)
  \/ WriteHeader
  \/ OriginWrite
  \/ \E tr \in TrailerMaps : OriginFinish(tr)
  \/ OriginAbort
  \/ CopyChunk
  \/ FlushTimer
  \/ FinishCopy
  \/ AbortCopy
  \/ ClientDisconnect
  \/ BadGateway
  \/ Tick

\* One plain request, for the runs that are about the relay.
PlainRequest ==
  [host |-> "127.0.0.1:8080",
   url |-> [scheme |-> "", host |-> "", path |-> <<"/">>, query |-> <<>>],
   remote |-> [ip |-> "127.0.0.1", port |-> ClientPort],
   header |-> NoHeader]

NewExchange ==
  /\ target \in {t \in Targets : t.path = <<>>}
  /\ inreq = PlainRequest
  /\ outreq = NoRequest
  /\ sent = NoRequest
  /\ rpc = "start"

(***************************************************************************)
(* Properties of the outbound request                                      *)
(***************************************************************************)

\* C5: the outbound request has the scheme and host of the target, and,
\* when the target carries no path prefix or query, the path and query of
\* the inbound request.
C5_TargetHostPathQuery ==
  rpc = "sent" =>
    /\ sent.url.scheme = target.scheme
    /\ sent.url.host = target.host
    /\ sent.host = target.host
    /\ (target.path = <<>> /\ target.query = <<>>) =>
         /\ sent.url.path = inreq.url.path
         /\ sent.url.query = inreq.url.query

\* C6: X-Forwarded-For of the outbound request holds the client address, and
\* when the inbound request carries X-Forwarded-For the client address is
\* appended to that chain.
C6_ForwardedForAppended ==
  rpc = "sent" =>
    LET xff == sent.header["X-Forwarded-For"]
        prior == Flatten(inreq.header["X-Forwarded-For"])
    IN /\ Len(xff) = 1
       /\ xff[1][Len(xff[1])] = inreq.remote.ip
       /\ xff[1] = prior \o <<inreq.remote.ip>>

\* C7: X-Forwarded-Host of the outbound request is the host the client
\* requested, whatever X-Forwarded-Host the client sent, although the
\* outbound host is the target's.
C7_ForwardedHostAssigned ==
  rpc = "sent" =>
    /\ sent.header["X-Forwarded-Host"] = << <<inreq.host>> >>
    /\ sent.host = target.host

C7_Witness ==
  /\ rpc = "sent"
  /\ inreq.header["X-Forwarded-Host"] = << <<"spoofed.example">> >>
  /\ sent.header["X-Forwarded-Host"] = << <<"127.0.0.1:8080">> >>
  /\ sent.host = "httpbin.org"

(***************************************************************************)
(* Properties of the dispatch and the relay                                *)
(***************************************************************************)
HandlerOver == xpc \in {"done", "aborted"}

IsPrefix(a, b) == Len(a) <= Len(b) /\ SubSeq(b, 1, Len(a)) = a

\* C4: when the connection to the origin or the wait for its response fails
\* before any response exists, the client receives a complete response with
\* status 502.
C4_BadGatewayOnTransportFailure ==
  (xpc = "done" /\ origin.status = 0 /\ origin.err # "none")
  => (client.status = 502 /\ client.state = "complete")

\* C8: whenever the origin responded and finished its response, the client
\* (which stayed connected) has received the origin's status and exactly the
\* origin's body.
C8_ExactStatusAndBody ==
  (HandlerOver /\ origin.finished = "ok" /\ ~client.gone)
  => /\ client.state = "complete"
     /\ client.status = origin.status
     /\ client.body = origin.body

\* Lemma: when the relay of a finished origin response ends before the
\* connection's 10 second write deadline, the client has received the origin's
\* status and exactly its body; at every moment the client holds the origin's
\* status, if any, and a prefix of the origin's body.
ExactRelayWithinWriteDeadline ==
  /\ (xpc = "done" /\ origin.finished = "ok" /\ now < 10 /\ ~client.gone)
     => /\ client.state = "complete"
        /\ client.status = origin.status
        /\ client.body = origin.body
  /\ origin.err = "none" => client.status \in {0, origin.status}
  /\ IsPrefix(client.body, origin.body)

\* C9: whenever the origin announced trailers and set exactly those, the
\* client (which stayed connected) is given exactly the announced trailers
\* with the origin's values.
C9_TrailersRelayed ==
  (/\ HandlerOver
   /\ ~client.gone
   /\ origin.finished = "ok"
   /\ origin.announced # {}
   /\ DOMAIN origin.trailers = origin.announced)
  => /\ client.state = "complete"
     /\ client.announced = origin.announced
     /\ client.trailers = origin.trailers

\* Lemma: the trailers are relayed as announced and set when the relay ends
\* before the connection's 10 second write deadline; and the client never
\* holds a trailer before it holds the whole body of a finished response.
TrailersRelayedWithinWriteDeadline ==
  /\ (/\ xpc = "done"
      /\ ~client.gone
      /\ origin.finished = "ok"
      /\ origin.announced # {}
      /\ DOMAIN origin.trailers = origin.announced
      /\ now < 10)
     => /\ client.state = "complete"
        /\ client.announced = origin.announced
        /\ DOMAIN client.trailers = origin.announced
        /\ \A n \in origin.announced : client.trailers[n] = origin.trailers[n]
  /\ client.trailers # NoTrailers
     => (origin.finished = "ok" /\ client.body = origin.body)

\* C10: when the origin writes a chunk a second or more after its previous
\* one, every chunk it wrote before is already with the client (which stayed
\* connected).
C10_ChunksDeliveredBeforeNextWrite ==
  [][(/\ Len(origin'.body) > Len(origin.body)
      /\ Len(origin.body) >= 1
      /\ ~client.gone
      /\ now > origin.lastWrite)
     => client.body = origin.body]_vars

\* Lemma: the chunks the origin wrote before the connection's 10 second
\* write deadline are with the client before the origin's next spaced write.
ChunksDeliveredWithinWriteDeadline ==
  [][(/\ Len(origin'.body) > Len(origin.body)
      /\ Len(origin.body) >= 1
      /\ ~client.gone
      /\ now > origin.lastWrite
      /\ origin.lastWrite < 10)
     => client.body = origin.body]_vars

(***************************************************************************)
(* The forwarding handler, part three: the response header.                *)
(***************************************************************************)
NoHopResponse == [status |-> 0, header |-> NoHeader, trailer |-> <<>>]

HopIdle ==
  /\ originres = NoHopResponse
  /\ clientres = NoHopResponse

StatusSwitchingProtocols == 101

\* Requests that carry hop-by-hop headers: a Connection header naming a
\* header of the request or asking for an upgrade, TE, Upgrade, Keep-Alive,
\* Proxy-Authorization, Transfer-Encoding.
HopConnectionChoices == {<<>>, << <<"X-Custom">> >>, << <<"Upgrade">> >>}
TeChoices == {<<>>, << <<"trailers">> >>, << <<"gzip">> >>}
UpgradeChoices == {<<>>, << <<"websocket">> >>}
Present(v) == {<<>>, << <<v>> >>}

HopRequests ==
  {[host |-> "127.0.0.1:8080",
    url |-> [scheme |-> "", host |-> "", path |-> <<"/">>, query |-> <<>>],
    remote |-> [ip |-> "127.0.0.1", port |-> ClientPort],
    header |-> [NoHeader EXCEPT !["Connection"] = conn,
                                !["Te"] = te,
                                !["Upgrade"] = up,
                                !["Keep-Alive"] = ka,
                                !["Proxy-Authorization"] = pa,
                                !["Transfer-Encoding"] = enc,
                                !["X-Custom"] = << <<"v">> >>]] :
     conn \in HopConnectionChoices, te \in TeChoices, up \in UpgradeChoices,
     ka \in Present("timeout=5"), pa \in Present("Basic Zm9v"),
     enc \in Present("chunked")}

\* The responses an origin can write, with hop-by-hop headers of its own.
HopResponses ==
  {[status |-> st,
    header |-> [NoHeader EXCEPT !["Connection"] = conn,
                                !["Upgrade"] = up,
                                !["Keep-Alive"] = ka,
                                !["Proxy-Authenticate"] = pa,
                                !["Trailer"] = tr,
                                !["X-Custom"] = << <<"v">> >>]] :
     st \in {StatusOK, StatusSwitchingProtocols},
     conn \in HopConnectionChoices, up \in UpgradeChoices,
     ka \in Present("timeout=5"), pa \in Present("Basic"),
     tr \in Present("X-Trailer")}

\* A request with hop-by-hop headers arrives at the handler.
NewHopExchange ==
  /\ target = CHOOSE t \in Targets : t.scheme = "http" /\ t.path = <<>>
  /\ inreq \in HopRequests
  /\ outreq = NoRequest
  /\ sent = NoRequest
  /\ rpc = "start"

\* The Transport reads the response: the Trailer and Transfer-Encoding
\* headers become the Trailer and TransferEncoding fields of the Response.
TransportResponse(raw) ==
  [status |-> raw.status,
   header |-> DelAll(raw.header, <<"Trailer", "Transfer-Encoding">>),
   trailer |-> Flatten(raw.header["Trailer"])]

\* The origin answers the request the transport sent.
HopRespond(raw) ==
  /\ rpc = "sent"
  /\ originres.status = 0
  /\ originres' = TransportResponse(raw)
  /\ UNCHANGED clientres
  /\ UNCHANGED <<serverVars, rewriteVars, relayVars, poolVars>>

\* ServeHTTP announces the trailers it is going to relay.
AnnounceTrailers(h, trailer) ==
  IF Len(trailer) > 0 THEN [h EXCEPT !["Trailer"] = Append(h["Trailer"], trailer)]
  ELSE h

\* ServeHTTP from the response to the header written to the client.  A 101
\* response goes to handleUpgradeResponse, which answers 502 when the origin
\* switches to another protocol than the one requested and otherwise copies
\* the whole header; any other response has its hop-by-hop headers removed.
ResponseHeader(out, r) ==
  IF r.status = StatusSwitchingProtocols
  THEN IF upgradeType(out.header) # upgradeType(r.header)
       THEN [status |-> StatusBadGateway, header |-> NoHeader, trailer |-> <<>>]
       ELSE [status |-> r.status, header |-> r.header, trailer |-> <<>>]
  ELSE [status |-> r.status,
        header |-> AnnounceTrailers(removeHopByHopHeaders(r.header), r.trailer),
        trailer |-> r.trailer]

RelayHeader ==
  /\ originres.status # 0
  /\ clientres.status = 0
  /\ clientres' = ResponseHeader(outreq, originres)
  /\ UNCHANGED originres
  /\ UNCHANGED <<serverVars, rewriteVars, relayVars, poolVars>>

HopNext ==
  \/ Prepare
  \/ Rewrite
  \/ RoundTrip
  \/ \E raw \in HopResponses : HopRespond(raw)
  \/ RelayHeader

PoolIdle ==
  /\ xs = <<>>
  /\ pool = <<>>

(***************************************************************************)
(* The forwarding handler, part four: several exchanges at once on the one *)
(* ReverseProxy and the one Transport NewProxy builds.  ServeHTTP runs on  *)
(* the goroutine of each connection; the exchanges share the target the    *)
(* Rewrite closure captured and the Transport's pool of connections.       *)
(***************************************************************************)
MaxExchanges == 2
MaxPoolConns == 2

Exchanges == 1..MaxExchanges
PoolConns == 1..MaxPoolConns
NoConn == 0

NoAnswer == [status |-> 0, body |-> <<>>]

\* The requests of the concurrent clients: they differ in path and client.
ConcurrentRequests ==
  {[PlainRequest EXCEPT !.url.path = path, !.remote.ip = ip] :
     path \in Paths, ip \in ClientIPs}

\* NewProxy(target) and one request per client connection.
NewEngine ==
  /\ target \in {t \in Targets : t.scheme = "http"}
  /\ inreq = NoRequest
  /\ outreq = NoRequest
  /\ sent = NoRequest
  /\ rpc = "idle"
  /\ xs \in [Exchanges -> {[pc |-> "start", in |-> r, out |-> NoRequest,
                             conn |-> NoConn, got |-> NoAnswer] :
                            r \in ConcurrentRequests}]
  /\ pool = [k \in PoolConns |-> [state |-> "none", req |-> NoRequest,
                                  resp |-> NoAnswer]]

\* The origin of the tests answers with what it read from the request.
OriginAnswer(req) ==
  [status |-> StatusOK,
   body |-> <<req.host, req.url.path, req.header["X-Forwarded-For"]>>]

\* ServeHTTP of exchange e up to the Rewrite hook.
ExchangePrepare(e) ==
  /\ xs[e].pc = "start"
  /\ xs' = [xs EXCEPT ![e].out = PrepareOutbound(xs[e].in), ![e].pc = "prepared"]
  /\ UNCHANGED pool
  /\ UNCHANGED <<serverVars, rewriteVars, relayVars, hopVars>>

SetURLTargetAliased(pr, t) ==
  [t EXCEPT !.path = singleJoiningSlash(t.path, pr.Out.url.path)]

\* What SetURL leaves in the target it is given: it reads the target and
\* writes r.Out only.
SetURLTarget(pr, t) == t

\* The Rewrite closure of NewProxy runs for exchange e on the shared target.
ExchangeRewrite(e) ==
  /\ xs[e].pc = "prepared"
  /\ LET pr == [In |-> xs[e].in, Out |-> xs[e].out] IN
     /\ xs' = [xs EXCEPT ![e].out = RewriteHook(pr, target).Out,
                          ![e].pc = "rewritten"]
     /\ target' = SetURLTarget(pr, target)
  /\ UNCHANGED pool
  /\ UNCHANGED <<inreq, outreq, sent, rpc>>
  /\ UNCHANGED <<serverVars, relayVars, hopVars>>

\* Transport.RoundTrip takes a connection for the request: an idle one of
\* the pool, or a newly dialled one.  A connection carries one request at a
\* time.  Equal connections are interchangeable: the lowest is taken.
Lowest(k, state) ==
  /\ pool[k].state = state
  /\ \A j \in PoolConns : j < k => pool[j].state # state

ExchangeRoundTrip(e, k) ==
  /\ xs[e].pc = "rewritten"
  /\ Lowest(k, "idle") \/ Lowest(k, "none")
  /\ pool' = [pool EXCEPT ![k] = [state |-> "busy", req |-> WireRequest(xs[e].out),
                                  resp |-> NoAnswer]]
  /\ xs' = [xs EXCEPT ![e].conn = k, ![e].pc = "sent"]
  /\ UNCHANGED <<serverVars, rewriteVars, relayVars, hopVars>>

\* The origin reads the request on a connection and writes its response.
OriginServe(k) ==
  /\ pool[k].state = "busy"
  /\ pool' = [pool EXCEPT ![k].state = "answered",
                          ![k].resp = OriginAnswer(pool[k].req)]
  /\ UNCHANGED xs
  /\ UNCHANGED <<serverVars, rewriteVars, relayVars, hopVars>>

\* The exchange reads the response from its connection and relays it to its
\* client; the connection goes back to the pool.
ExchangeRelay(e) ==
  /\ xs[e].pc = "sent"
  /\ pool[xs[e].conn].state = "answered"
  /\ xs' = [xs EXCEPT ![e].got = pool[xs[e].conn].resp, ![e].pc = "done",
                       ![e].conn = NoConn]
  /\ pool' = [pool EXCEPT ![xs[e].conn].state = "idle"]
  /\ UNCHANGED <<serverVars, rewriteVars, relayVars, hopVars>>

EngineNext ==
  \/ \E e \in Exchanges : ExchangePrepare(e)
  \/ \E e \in Exchanges : ExchangeRewrite(e)
  \/ \E e \in Exchanges, k \in PoolConns : ExchangeRoundTrip(e, k)
  \/ \E k \in PoolConns : OriginServe(k)
  \/ \E e \in Exchanges : ExchangeRelay(e)

(***************************************************************************)
(* Specifications                                                          *)
(***************************************************************************)
\* A server that handles no exchange yet.
InitServer == NewServer /\ RewriteIdle /\ RelayIdle /\ HopIdle /\ PoolIdle

SpecServer == InitServer /\ [][ServerNext]_vars

\* A request of any shape arrives at the handler.
InitRewrite == NewServer /\ NewProxy /\ RelayIdle /\ HopIdle /\ PoolIdle

SpecRewrite == InitRewrite /\ [][RewriteNext]_vars

\* A plain request arrives at the handler and is relayed.
InitRelay == NewServer /\ NewExchange /\ RelayIdle /\ HopIdle /\ PoolIdle

SpecRelay == InitRelay /\ [][RelayNext]_vars

\* A request with hop-by-hop headers is forwarded and answered.
InitHop == NewServer /\ NewHopExchange /\ RelayIdle /\ HopIdle /\ PoolIdle

SpecHop == InitHop /\ [][HopNext]_vars

\* Several clients send their requests to one engine.
InitEngine == NewServer /\ NewEngine /\ RelayIdle /\ HopIdle

SpecEngine == InitEngine /\ [][EngineNext]_vars

(***************************************************************************)
(* Properties of the lifecycle                                             *)
(***************************************************************************)

\* C1: a Serve on a Server on which no Listen has succeeded returns at once
\* with the error "must call Listen() before Serve()"; it creates no
\* socket, accepts no connection and leaves the server unbound.
C1_ServeBeforeListen ==
  [][\A c \in Calls :
       (UsedListeners = {} /\ calls[c].pc = "idle" /\ calls'[c].kind = "Serve")
       => /\ calls'[c].pc = "returned"
          /\ calls'[c].err = "must call Listen() before Serve()"
          /\ listener' = NilListener
          /\ sock' = sock
          /\ conns' = conns
          /\ tracked' = tracked]_serverVars

C1_Witness ==
  \E c \in Calls :
     /\ calls[c].kind = "Serve"
     /\ calls[c].pc = "returned"
     /\ calls[c].err = ErrMustListen
     /\ UsedListeners = {}

\* C2: when Shutdown runs while a Serve is in progress and completes
\* normally, that Serve returns nil to its caller.
C2_ServeReturnsNilAfterShutdown ==
  [][\A c \in Calls :
       (/\ calls[c].pc = "accepting"
        /\ sd.pc = "returned"
        /\ sd.err = NoErr
        /\ calls'[c].pc = "returned")
       => calls'[c].err = NoErr]_serverVars

C11_ServingOnlyAfterBound ==
  [][/\ \A c \in Calls :
          calls'[c].pc = "accepting"
          => /\ listener # NilListener
             /\ calls'[c].l \in UsedListeners
             /\ (calls[c].pc # "accepting" /\ calls'[c].kind = "ListenAndServe")
                => calls[c].pc = "bound"
     /\ \A k \in Conns : conns'[k] # "none" => UsedListeners # {}]_serverVars

C11_Witness ==
  \E c \in Calls :
     /\ calls[c].kind = "ListenAndServe"
     /\ calls[c].pc = "accepting"
     /\ sock[calls[c].l].state = "open"
     /\ \E k \in Conns : conns[k] = "active"

\* C12: when Shutdown is called after a successful Listen, it does not return
\* before the listening socket stored at the call is closed and either no
\* connection is left or its grace period has elapsed; once it has returned
\* no new connection is accepted.
C12_ShutdownClosesListener ==
  [][/\ (sd.pc = "polling" /\ sd'.pc = "returned")
        => /\ sd.l # NilListener => sock'[sd.l].state = "closed"
           /\ Quiescent(conns') \/ sd.elapsed >= sd.deadline
     /\ sd.pc = "returned"
        => \A k \in Conns : conns[k] = "none" => conns'[k] = "none"]_serverVars

\* C13: once Shutdown has returned because its grace period expired, no
\* connection the server accepted is still open; the expiry is returned to
\* the caller as an error and the process keeps running.
C13_ForcedCloseAfterGrace ==
  (sd.pc = "returned" /\ sd.elapsed >= sd.deadline)
  => /\ Quiescent(conns)
     /\ sd.err = ErrDeadline
     /\ (\A c \in Calls : calls[c].caller # "main") => exit = NoExit

\* C14: a Listen that fails returns an error and changes nothing else: the
\* stored listener and the sockets stay as they were (under ListenAndServe
\* the error is what ListenAndServe returns); a Serve that follows only
\* failed Listens returns the precondition error; and another Listen can
\* succeed after a failed one.
C14_FailedListenChangesNothing ==
  [][/\ (listenErr # ErrListen /\ listenErr' = ErrListen)
        => /\ listener' = listener
           /\ sock' = sock
           /\ UNCHANGED <<inShutdown, tracked, conns, sd, exit>>
           /\ \A c \in Calls :
                 calls'[c] # calls[c]
                 => /\ calls'[c].kind = "ListenAndServe"
                    /\ calls'[c].pc = "returned"
                    /\ calls'[c].err = ErrListen
     /\ (listener' # listener \/ UsedListeners' # UsedListeners)
        => listenErr' = NoErr
     /\ \A c \in Calls :
          (/\ listenErr = ErrListen
           /\ listener = NilListener
           /\ calls[c].pc = "idle"
           /\ calls'[c].kind = "Serve")
          => calls'[c].err = ErrMustListen
     /\ (listenErr = ErrListen /\ Cardinality(UsedListeners) < MaxListeners)
        => ENABLED Listen(EphemeralAddr, TRUE)]_serverVars

C14_Witness ==
  /\ listenErr = ErrListen
  /\ listener # NilListener
  /\ sock[listener].state = "open"
  /\ \E c \in Calls : calls[c].kind = "ListenAndServe" /\ calls[c].err = ErrListen

(***************************************************************************)
(* Properties of the forwarded headers                                     *)
(***************************************************************************)
\* The hop-by-hop headers of a message: the standard ones and the headers
\* its Connection header names.
HopNamed(h) ==
  ({HopHeaders[i] : i \in 1..Len(HopHeaders)}
     \cup {Flatten(h["Connection"])[i] : i \in 1..Len(Flatten(h["Connection"]))})
  \cap HeaderNames

OwnAnswer(e, t) ==
  LET in == xs[e].in IN
  OriginAnswer(WireRequest(RewriteHook([In |-> in, Out |-> PrepareOutbound(in)], t).Out))

\* C16: under every interleaving of the exchanges on one engine, a client
\* receives the response the origin produced for its own request, and a step
\* of one exchange changes neither the target nor another exchange.
C16_OwnResponseUnderInterleaving ==
  [][/\ target' = target
     /\ \A e \in Exchanges :
          xs'[e].pc = "done" => xs'[e].got = OwnAnswer(e, target)
     /\ \A e, f \in Exchanges :
          (e # f /\ xs'[e] # xs[e]) => xs'[f] = xs[f]
     /\ \A e, f \in Exchanges :
          (e # f /\ xs[e].conn # NoConn) => xs[e].conn # xs[f].conn]_vars

C16_Witness ==
  /\ \A e \in Exchanges : xs[e].pc = "done"
  /\ \E e, f \in Exchanges : xs[e].got # xs[f].got
  /\ \E k \in PoolConns : pool[k].state = "none"
  /\ target.path # <<>>

\* C17: URL yields an address exactly when a Listen has succeeded on the
\* Server: from then on, while bound, serving and after shutdown, it is
\* "http://" with the resolved address of the stored listener (the port the
\* system assigned for ":0"); before, it yields no address.
C17_URLAfterListen ==
  /\ UsedListeners # {} <=> URLResult(listener) # NoAddress
  /\ UsedListeners # {}
     => /\ URLResult(listener).scheme = "http"
        /\ URLResult(listener).addr.port = sock[listener].port
        /\ URLResult(listener).addr.port
              \in {FixedPort} \cup {EphemeralBase + i : i \in Listeners}

C17_Witness ==
  /\ listener # NilListener
  /\ sock[listener].state = "closed"
  /\ sd.pc = "returned"
  /\ URLResult(listener).addr.port = EphemeralBase + listener

(***************************************************************************)
(* Properties of a failure after the response headers                      *)
(***************************************************************************)
\* C18: once the client has the status line and headers, a failure of the
\* origin or of the client leaves the status the client saw as it is, writes
\* no Bad Gateway and no second status; the copy of a body whose read failed
\* ends aborted with the connection closed, and an exchange that failed is
\* never completed towards the client.
C18_StatusKeptAfterHeaders ==
  [][/\ client.status # 0
        => /\ client'.status = client.status
           /\ rw'.status = rw.status
           /\ client'.status # StatusBadGateway
     /\ (xpc = "copy" /\ origin.finished = "failed" /\ xpc' # "copy")
        => xpc' = "aborted" /\ client'.state = "closed"
     /\ (xpc = "copy" /\ (origin.finished = "failed" \/ rw.broken))
        => client'.state # "complete"]_vars

C18_Witness ==
  /\ xpc = "aborted"
  /\ ~client.gone
  /\ origin.finished = "failed"
  /\ client.status = StatusOK
  /\ client.state = "closed"
  /\ Len(client.body) >= 1
  /\ Len(client.body) < Len(origin.body)

\* C19: once Shutdown has been called the server stays shut down: a Serve or
\* ListenAndServe that has not reached its accept loop by then never reaches
\* it, whether it was called later or had only been started, and it returns
\* an error.
C19_ShutdownAbsorbing ==
  [][inShutdown
     => /\ inShutdown'
        /\ \A c \in Calls :
             /\ calls[c].pc # "accepting" => calls'[c].pc # "accepting"
             /\ (calls[c].pc # "returned" /\ calls'[c].pc = "returned")
                => calls'[c].err # NoErr]_serverVars

C19_Witness ==
  /\ inShutdown
  /\ \E c \in Calls :
       /\ calls[c].kind = "Serve"
       /\ calls[c].pc = "returned"
       /\ calls[c].err = ErrServerClosed
       /\ sock[calls[c].l].state = "closed"
  /\ \A k \in Conns : conns[k] = "none"

(***************************************************************************)
(* Properties of a second Listen                                           *)
(***************************************************************************)
\* C20: a second successful Listen replaces the stored listener and leaves
\* the earlier socket open, and no later operation closes a listening socket
\* other than the stored one (the return of a Serve that was running on it
\* is not counted as a later operation).
C20_EarlierListenerNeverClosed ==
  [][/\ listener' # listener
        => \A i \in UsedListeners : sock'[i] = sock[i]
     /\ \A i \in Listeners :
          (/\ i # listener
           /\ sock[i].state = "open"
           /\ ~\E c \in Calls : /\ calls[c].pc = "accepting"
                                 /\ calls[c].l = i
                                 /\ calls'[c].pc = "returned")
          => sock'[i].state = "open"]_serverVars

\* C20 as amended: a second successful Listen replaces the stored listener
\* and leaves the earlier socket open; a call that enters its accept loop
\* serves the stored listener; and a listening socket other than the stored
\* one is closed only if a Serve or ListenAndServe is running on it (by the
\* end of that accept loop or by Shutdown).
C20_EarlierListenerClosedOnlyIfServed ==
  [][/\ listener' # listener
        => \A i \in UsedListeners : sock'[i] = sock[i]
     /\ \A c \in Calls :
          (calls[c].pc # "accepting" /\ calls'[c].pc = "accepting")
          => calls'[c].l = listener
     /\ \A i \in Listeners :
          (i # listener /\ sock[i].state = "open" /\ sock'[i].state # "open")
          => \E c \in Calls : calls[c].pc = "accepting" /\ calls[c].l = i]_serverVars

C20_Witness ==
  /\ listener = 2
  /\ sock[1].state = "closed"
  /\ sock[2].state = "open"
  /\ sd.pc = "returned"
  /\ URLResult(listener).addr.port = sock[2].port
====
